---------------------------- MODULE Spec2Model ----------------------------
(* A model of filetree.py: the Basetree / Filetree / Dirtree classes, their  *)
(* path normalisation, construction by os.walk, filter, and the three        *)
(* comparators compare_size, compare_set and compare_binary.                 *)
(*                                                                           *)
(* Python strings are sequences of one-character strings, Python lists are   *)
(* sequences that live in a heap (so that aliasing is visible), Python sets  *)
(* are sets.                                                                 *)
EXTENDS Integers, Sequences, FiniteSets, TLC

(***************************************************************************)
(* Bounds of the model.                                                    *)
(***************************************************************************)
\* longest path string handed to the constructor in SpecPath
MaxPathLen == 4
\* most Tree objects alive in one run (constructed or returned by filter)
MaxTrees == 2
\* filter is called while the applied_filters logs of all trees together
\* hold fewer entries than this
MaxFilters == 2

(***************************************************************************)
(* Strings.                                                                *)
(***************************************************************************)
SEP == "/"

\* code points of the characters the model uses (Python compares str by them)
Ord(c) ==
  CASE c = "!" -> 33 [] c = "(" -> 40 [] c = "*" -> 42 [] c = "." -> 46
    [] c = "/" -> 47 [] c = "<" -> 60 [] c = ">" -> 62
    [] c = "a" -> 97 [] c = "b" -> 98 [] c = "w" -> 119 [] c = "x" -> 120
    [] c = "y" -> 121

RECURSIVE StrLess(_, _)
\* s < t for two Python str: lexicographic by code point, a proper prefix first
StrLess(s, t) ==
  IF t = <<>> THEN FALSE
  ELSE IF s = <<>> THEN TRUE
  ELSE IF Head(s) # Head(t) THEN Ord(Head(s)) < Ord(Head(t))
  ELSE StrLess(Tail(s), Tail(t))

\* s.startswith(p)
StartsWith(s, p) == Len(s) >= Len(p) /\ SubSeq(s, 1, Len(p)) = p

\* s.endswith(p)
EndsWith(s, p) == Len(s) >= Len(p) /\ SubSeq(s, Len(s) - Len(p) + 1, Len(s)) = p

\* s[n:]
DropFirst(s, n) == IF n >= Len(s) THEN <<>> ELSE SubSeq(s, n + 1, Len(s))

RECURSIVE Split(_, _)
\* s.split("/") with cur the segment being read: always at least one segment
Split(s, cur) ==
  IF s = <<>> THEN <<cur>>
  ELSE IF Head(s) = SEP THEN <<cur>> \o Split(Tail(s), <<>>)
  ELSE Split(Tail(s), Append(cur, Head(s)))

RECURSIVE JoinSep(_)
\* "/".join(parts)
JoinSep(parts) ==
  IF parts = <<>> THEN <<>>
  ELSE IF Len(parts) = 1 THEN parts[1]
  ELSE parts[1] \o <<SEP>> \o JoinSep(Tail(parts))

RECURSIVE StringsUpTo(_, _)
\* every string over alphabet of length at most n
StringsUpTo(alphabet, n) ==
  IF n = 0 THEN {<<>>}
  ELSE LET shorter == StringsUpTo(alphabet, n - 1)
       IN  shorter \cup {Append(s, c) : s \in shorter, c \in alphabet}

(***************************************************************************)
(* The environment: working directory and file system.                     *)
(***************************************************************************)
\* os.getcwd()
Cwd == <<"/", "w">>

\* one-segment names of the file system, as Python str
W == <<"w">>
X == <<"x">>
Y == <<"y">>
A == <<"a">>
AB == <<"a", "b">>
BB == <<"b", "b">>

\* the regular files below Cwd, each as its segments from the file system
\* root: the directories x and y both hold a, ab/a and bb/a
Files ==
  { <<W, X, A>>, <<W, X, AB, A>>, <<W, X, BB, A>>,
    <<W, Y, A>>, <<W, Y, AB, A>>, <<W, Y, BB, A>> }

\* the byte strings a file may hold
Contents == { <<>>, <<1>> }

\* the files of x and y hold the same bytes
FsSame == [f \in Files |-> <<1>>]

\* x/a and y/a differ, x/bb/a and y/bb/a differ, x/ab/a and y/ab/a are the
\* same; two files are empty
FsDiffer ==
  [f \in Files |-> IF f \in {<<W, Y, A>>, <<W, X, BB, A>>} THEN <<>> ELSE <<1>>]

\* what the files may hold when the program starts
InitFs == {FsSame, FsDiffer}

\* the kernel's reading of a path string: empty and "." segments drop out
Resolve(pathstr) ==
  SelectSeq(Split(pathstr, <<>>), LAMBDA seg : seg # <<>> /\ seg # <<".">>)

\* every directory: the root and what some file lies below
Dirs == UNION {{SubSeq(f, 1, k) : k \in 0..(Len(f) - 1)} : f \in Files}

\* os.path.isdir for a resolved path
IsDir(d) == d \in Dirs

\* the names of the regular files directly in directory d
FilesIn(d) ==
  {f[Len(f)] : f \in {g \in Files : Len(g) = Len(d) + 1 /\ SubSeq(g, 1, Len(d)) = d}}

\* the names of the directories directly in directory d
DirsIn(d) ==
  {f[Len(d) + 1] : f \in {g \in Files : Len(g) > Len(d) + 1 /\ SubSeq(g, 1, Len(d)) = d}}

\* d and every directory below it: the directories os.walk visits from d
\* (none when d is no directory: os.walk swallows the error)
WalkDirs(d) == {e \in Dirs : Len(e) >= Len(d) /\ SubSeq(e, 1, Len(d)) = d}

\* os.path.join(a, b) for a relative b
OsPathJoin(a, b) ==
  IF a = <<>> \/ EndsWith(a, <<SEP>>) THEN a \o b ELSE a \o <<SEP>> \o b

RECURSIVE WalkRoot(_, _, _)
\* the root string os.walk(top) reports for directory d: top itself for the
\* top directory, os.path.join(root of the parent, name) below it
WalkRoot(top, topdir, d) ==
  IF d = topdir THEN top
  ELSE OsPathJoin(WalkRoot(top, topdir, SubSeq(d, 1, Len(d) - 1)), d[Len(d)])

RECURSIVE ListOfSet(_)
\* a list holding the members of S once each, in an order the code does not fix
ListOfSet(S) ==
  IF S = {} THEN <<>>
  ELSE LET x == CHOOSE y \in S : TRUE IN <<x>> \o ListOfSet(S \ {x})

\* "{}/{}".format(root, entry) if root else "{}".format(entry)
FormatEntry(root, entry) ==
  IF root # <<>> THEN root \o <<SEP>> \o entry ELSE entry

\* Basetree._create_abslist over os.walk(top)
CreateAbslist(top, dirsonly) ==
  LET topdir == Resolve(top)
      entries(d) == IF dirsonly THEN DirsIn(d) ELSE FilesIn(d)
  IN  ListOfSet(UNION {{FormatEntry(WalkRoot(top, topdir, d), entry) : entry \in entries(d)} :
                         d \in WalkDirs(topdir)})

\* Basetree._create_rellist
CreateRellist(abslist, path) ==
  [i \in 1..Len(abslist) |-> DropFirst(abslist[i], Len(path) + 1)]

RECURSIVE Insert(_, _)
\* s is ascending: s with x put after the last element not above it
Insert(s, x) ==
  IF s = <<>> THEN <<x>>
  ELSE IF StrLess(x, Head(s)) THEN <<x>> \o s
  ELSE <<Head(s)>> \o Insert(Tail(s), x)

RECURSIVE Sort(_)
\* list.sort() on a list of str
Sort(s) ==
  IF s = <<>> THEN <<>> ELSE Insert(Sort(SubSeq(s, 1, Len(s) - 1)), s[Len(s)])

(***************************************************************************)
(* Basetree: path normalisation.                                           *)
(***************************************************************************)
\* Basetree._parse_path_argument
ParsePathArgument(path) ==
  LET p1 == IF EndsWith(path, <<SEP>>) THEN SubSeq(path, 1, Len(path) - 1) ELSE path
  IN  IF StartsWith(p1, <<SEP>>) THEN p1
      ELSE IF StartsWith(p1, <<".", SEP>>)
           THEN JoinSep(<<Cwd, DropFirst(p1, 2)>>)
           ELSE JoinSep(<<Cwd, p1>>)

\* Basetree._seperate_path: <<leadingpath, directory>>
SeperatePath(path) ==
  LET path_elements == Split(path, <<>>)
      n == Len(path_elements)
      leadingpath == <<SEP>> \o JoinSep(SubSeq(path_elements, 2, n - 1)) \o <<SEP>>
      directory == IF path_elements[n] = <<>> THEN path_elements[n - 1]
                   ELSE path_elements[n]
  IN  <<leadingpath, directory>>

(***************************************************************************)
(* re.fullmatch on the patterns the model uses: literals, ".", a postfix   *)
(* "*", and "(" which nothing in the alphabet closes.                      *)
(***************************************************************************)
\* re.compile succeeds: no unterminated group, and every "*" has something
\* to repeat that is not itself a repeat
ReValid(pattern) ==
  \A i \in 1..Len(pattern) :
    /\ pattern[i] # "("
    /\ pattern[i] = "*" => (i > 1 /\ pattern[i - 1] # "*")

\* one pattern atom against one character ("." is any character but newline)
AtomMatches(atom, c) == atom = "." \/ atom = c

RECURSIVE ReMatches(_, _)
\* the whole of string s matches the valid pattern
ReMatches(pattern, s) ==
  IF pattern = <<>> THEN s = <<>>
  ELSE IF Len(pattern) >= 2 /\ pattern[2] = "*"
       THEN \/ ReMatches(DropFirst(pattern, 2), s)
            \/ s # <<>> /\ AtomMatches(pattern[1], Head(s)) /\ ReMatches(pattern, Tail(s))
       ELSE s # <<>> /\ AtomMatches(pattern[1], Head(s))
                     /\ ReMatches(Tail(pattern), Tail(s))

\* re.fullmatch(pattern, s): re.error for a pattern that does not compile
ReFullmatch(pattern, s) ==
  IF ~ReValid(pattern) THEN [error |-> TRUE, match |-> FALSE]
  ELSE [error |-> FALSE, match |-> ReMatches(pattern, s)]

(***************************************************************************)
(* Python objects: attribute values carry their type.                      *)
(***************************************************************************)
PyInt(n) == [type |-> "int", int |-> n]
PyBool(b) == [type |-> "bool", bool |-> b]
PyList(items) == [type |-> "list", items |-> items]
PyNone == [type |-> "NoneType"]
\* the descriptor namedtuple() puts on the class for its k-th field
PyTuplegetter(k) == [type |-> "_tuplegetter", index |-> k]

\* namedtuple("result", field_names): the class, its fields still descriptors
Namedtuple(field_names) ==
  [f \in {field_names[k] : k \in 1..Len(field_names)} |->
     PyTuplegetter((CHOOSE k \in 1..Len(field_names) : field_names[k] = f) - 1)]

\* obj.attr = value
SetAttr(obj, attr, value) ==
  [f \in DOMAIN obj \cup {attr} |-> IF f = attr THEN value ELSE obj[f]]

(***************************************************************************)
(* State.                                                                  *)
(*   fs      what each regular file holds                                  *)
(*   heap    the list objects, by address                                  *)
(*   trees   the Tree objects the caller holds, in creation order          *)
(*   out     the last call: its arguments and what it returned or raised   *)
(***************************************************************************)
VARIABLES fs, heap, trees, out

vars == <<fs, heap, trees, out>>

\* self.elements / self.files / self.directories
Elements(h, t) == h[t.elemlist]

\* self.applied_filters
AppliedFilters(h, t) == h[t.applied_filters]

\* self.size
Size(h, t) == Len(h[t.elemlist])

\* the address of a new list object
NewAddr(h) == CHOOSE a \in 1..(Cardinality(DOMAIN h) + 1) : a \notin DOMAIN h

\* the heap with list v allocated at a new address
Alloc(h, v) == [a \in DOMAIN h \cup {NewAddr(h)} |-> IF a \in DOMAIN h THEN h[a] ELSE v]

\* reference counting: the lists no tree refers to are freed. Addresses are
\* not observable, so the lists left are renumbered in the order in which
\* the trees refer to them; two fields that share a list still share it
Collect(h, ts) ==
  LET refs == [k \in 1..(2 * Len(ts)) |->
                 IF k % 2 = 1 THEN ts[(k + 1) \div 2].elemlist
                 ELSE ts[k \div 2].applied_filters]
      first(a) == CHOOSE k \in 1..Len(refs) :
                    refs[k] = a /\ \A m \in 1..(k - 1) : refs[m] # a
      rank(a) == Cardinality({refs[m] : m \in 1..first(a)})
      live == {refs[k] : k \in 1..Len(refs)}
  IN  [heap |-> [r \in 1..Cardinality(live) |-> h[CHOOSE a \in live : rank(a) = r]],
       trees |-> [i \in 1..Len(ts) |->
                    [ts[i] EXCEPT !.elemlist = rank(@), !.applied_filters = rank(@)]]]

(***************************************************************************)
(* Construction.                                                           *)
(***************************************************************************)
\* the constructor calls of the specifications: Filetree("x"),
\* Filetree("y"), Filetree("x//"), Dirtree("x"), and Dirtree("b") and
\* Filetree("b") for a directory b that does not exist
TreeArgs ==
  { <<"Filetree", <<"x">>>>, <<"Filetree", <<"y">>>>, <<"Filetree", <<"x", "/", "/">>>>,
    <<"Dirtree", <<"x">>>>, <<"Dirtree", <<"b">>>>, <<"Filetree", <<"b">>>> }

\* Filetree.__init__ / Dirtree.__init__: the sorted relative list
BuildElemlist(kind, abspath) ==
  Sort(CreateRellist(CreateAbslist(abspath, kind = "Dirtree"), abspath))

\* Filetree.__init__ ends with os.listdir(self._abspath), which raises when
\* the root is no directory; Dirtree.__init__ has no such call
InitRaises(kind, abspath) == kind = "Filetree" /\ ~IsDir(Resolve(abspath))

\* Basetree.__init__ then the subclass __init__
Construct(kind, path) ==
  /\ Len(trees) < MaxTrees
  /\ LET abspath == ParsePathArgument(path)
         sep == SeperatePath(abspath)
         h1 == Alloc(heap, BuildElemlist(kind, abspath))
         h2 == Alloc(h1, <<>>)
         t == [kind |-> kind, abspath |-> abspath, leadingpath |-> sep[1],
               rootdir |-> sep[2], elemlist |-> NewAddr(heap),
               applied_filters |-> NewAddr(h1)]
     IN  IF InitRaises(kind, abspath)
         THEN /\ out' = [op |-> "init", kind |-> kind, path |-> path, raised |-> TRUE]
              /\ UNCHANGED <<heap, trees>>
         ELSE /\ trees' = Append(trees, t)
              /\ heap' = h2
              /\ out' = [op |-> "init", kind |-> kind, path |-> path, raised |-> FALSE]
  /\ UNCHANGED fs

\* the characters of the path arguments of SpecPath
PathAlphabet == {"/", ".", "x", "a"}

\* Basetree.__init__(path): a Tree with no elements yet
BasetreeInit(path) ==
  /\ trees = <<>>
  /\ LET abspath == ParsePathArgument(path)
         sep == SeperatePath(abspath)
         h1 == Alloc(heap, <<>>)
         h2 == Alloc(h1, <<>>)
     IN  /\ trees' = <<[kind |-> "Basetree", abspath |-> abspath, leadingpath |-> sep[1],
                        rootdir |-> sep[2], elemlist |-> NewAddr(heap),
                        applied_filters |-> NewAddr(h1)]>>
         /\ heap' = h2
         /\ out' = [op |-> "init", kind |-> "Basetree", path |-> path, raised |-> FALSE]
  /\ UNCHANGED fs

(***************************************************************************)
(* Basetree.filter                                                         *)
(***************************************************************************)
\* the expressions handed to filter: "b", "a.*" and "*", which is no
\* pattern, alone or between ".*" and ".*"
Expressions == { <<"b">>, <<"a", ".", "*">>, <<"*">> }

\* mutant of Keeps: both branches test the match the same way
Keeps_NotInverted(invert, matched) == matched

\* the branch of the loop body: keep name when it matches, or when it does
\* not under invert
Keeps(invert, matched) == IF invert THEN ~matched ELSE matched

RECURSIVE FilterLoop(_, _, _, _)
\* for name in self.elements: ... filtered.append(name); re.error from the
\* first re.fullmatch ends the call
FilterLoop(expression, names, invert, filtered) ==
  IF names = <<>> THEN [raised |-> FALSE, filtered |-> filtered]
  ELSE LET m == ReFullmatch(expression, Head(names))
       IN  IF m.error THEN [raised |-> TRUE, filtered |-> filtered]
           ELSE FilterLoop(expression, Tail(names), invert,
                           IF Keeps(invert, m.match) THEN Append(filtered, Head(names))
                           ELSE filtered)

\* expression = ".*{}.*".format(expression) unless regex
Wrapped(expression, regex) ==
  IF regex THEN expression ELSE <<".", "*">> \o expression \o <<".", "*">>

\* expression = "!><{}".format(expression) when invert
Logged(expression, invert) ==
  IF invert THEN <<"!", ">", "<">> \o expression ELSE expression

\* mutant of Deepcopy, copy.copy(self): a new Tree that refers to the
\* receiver's own lists
ShallowCopy(h, t) == [heap |-> h, tree |-> t]

\* copy.deepcopy(self): a new Tree with new list objects of equal content
Deepcopy(h, t) ==
  LET h1 == Alloc(h, h[t.elemlist])
      h2 == Alloc(h1, h[t.applied_filters])
  IN  [heap |-> h2,
       tree |-> [t EXCEPT !.elemlist = NewAddr(h), !.applied_filters = NewAddr(h1)]]

RECURSIVE LoggedInAll(_, _)
\* the entries of the applied_filters logs of the trees ts, counted together
LoggedInAll(h, ts) ==
  IF ts = <<>> THEN 0 ELSE Len(AppliedFilters(h, Head(ts))) + LoggedInAll(h, Tail(ts))

\* self.filter(expression, inplace, regex, invert) on trees[i]
Filter(i, expression, inplace, regex, invert) ==
  /\ i \in 1..Len(trees)
  /\ LoggedInAll(heap, trees) < MaxFilters
  /\ LET self == trees[i]
         expr == Wrapped(expression, regex)
         loop == FilterLoop(expr, Elements(heap, self), invert, <<>>)
         logged == Logged(expr, invert)
         call == [op |-> "filter", self |-> i, expression |-> expression,
                  inplace |-> inplace, regex |-> regex, invert |-> invert]
     IN  IF loop.raised
         THEN /\ out' = call @@ [raised |-> TRUE, returned |-> 0]
              /\ UNCHANGED <<heap, trees>>
         ELSE IF inplace
         THEN LET h1 == Alloc(heap, loop.filtered)
                  t1 == [self EXCEPT !.elemlist = NewAddr(heap)]
                  ts == [trees EXCEPT ![i] = t1]
                  h2 == [h1 EXCEPT ![t1.applied_filters] = Append(@, logged)]
              IN  /\ trees' = Collect(h2, ts).trees
                  /\ heap' = Collect(h2, ts).heap
                  /\ out' = call @@ [raised |-> FALSE, returned |-> 0]
         ELSE /\ Len(trees) < MaxTrees
              /\ LET c == Deepcopy(heap, self)
                     h1 == Alloc(c.heap, loop.filtered)
                     t1 == [c.tree EXCEPT !.elemlist = NewAddr(c.heap)]
                     ts == Append(trees, t1)
                     h2 == [h1 EXCEPT ![t1.applied_filters] = Append(@, logged)]
                 IN  /\ trees' = Collect(h2, ts).trees
                     /\ heap' = Collect(h2, ts).heap
                     /\ out' = call @@ [raised |-> FALSE, returned |-> Len(ts)]
  /\ UNCHANGED fs

(***************************************************************************)
(* _hash                                                                   *)
(***************************************************************************)
\* the bytes file.read(1024) asks for
ChunkSize == 1024

RECURSIVE HashLoop(_, _, _)
\* while chunk != b'': chunk = file.read(1024); hasher.update(chunk),
\* with pos the bytes read so far and fed the bytes the hasher has taken
HashLoop(content, pos, fed) ==
  LET last == IF pos + ChunkSize < Len(content) THEN pos + ChunkSize ELSE Len(content)
      chunk == SubSeq(content, pos + 1, last)
  IN  IF chunk = <<>> THEN fed ELSE HashLoop(content, last, fed \o chunk)

\* hasher.hexdigest(): md5 of the bytes fed (distinct bytes, distinct digest:
\* md5 collisions are outside the model)
HexDigest(fed) == [md5 |-> fed]

\* _hash(filepath): open() raises OSError unless filepath is a regular file
Hash(fsys, filepath) ==
  LET f == Resolve(filepath)
  IN  IF f \in DOMAIN fsys
      THEN [raised |-> FALSE, digest |-> HexDigest(HashLoop(fsys[f], 0, <<>>))]
      ELSE [raised |-> TRUE, digest |-> HexDigest(<<>>)]

(***************************************************************************)
(* The comparators.                                                        *)
(***************************************************************************)
\* set(list)
SetOf(list) == {list[k] : k \in 1..Len(list)}

\* list(set): the members once each, in any order
ListsOf(S) ==
  {l \in [1..Cardinality(S) -> S] : \A m, n \in 1..Cardinality(S) : l[m] = l[n] => m = n}

\* compare_size(tree_a, tree_b)
CompareSize(h, ta, tb) ==
  LET r0 == Namedtuple(<<"result", "size_a", "size_b">>)
      r1 == SetAttr(r0, "na", PyInt(Size(h, ta)))
      r2 == SetAttr(r1, "nb", PyInt(Size(h, tb)))
  IN  SetAttr(r2, "result", PyBool(r2.na = r2.nb))

\* mutant of DiffA: the difference taken the wrong way round
DiffA_Swapped(set_a, set_b) == set_a \ set_b

\* set_b.difference(set_a): what tree a misses
DiffA(set_a, set_b) == set_b \ set_a

\* set_a.difference(set_b): what tree b misses
DiffB(set_a, set_b) == set_a \ set_b

\* compare_set(tree_a, tree_b): every result it may return (the order of a
\* list made from a set is not fixed)
CompareSet(h, ta, tb) ==
  LET r0 == Namedtuple(<<"result", "missing_a", "missing_b">>)
      set_a == SetOf(Elements(h, ta))
      set_b == SetOf(Elements(h, tb))
  IN  IF set_a = set_b
      THEN {SetAttr(SetAttr(SetAttr(r0, "result", PyBool(TRUE)),
                            "missing_a", PyList(<<>>)), "missing_b", PyList(<<>>))}
      ELSE {SetAttr(SetAttr(SetAttr(r0, "result", PyBool(FALSE)),
                            "missing_a", PyList(diff_a)), "missing_b", PyList(diff_b)) :
              diff_a \in ListsOf(DiffA(set_a, set_b)),
              diff_b \in ListsOf(DiffB(set_a, set_b))}

\* mutant of BothFiletrees: "or" for "and"
BothFiletrees_Or(ta, tb) == ta.kind = "Filetree" \/ tb.kind = "Filetree"

\* isinstance(tree_a, Filetree) and isinstance(tree_b, Filetree)
BothFiletrees(ta, tb) == ta.kind = "Filetree" /\ tb.kind = "Filetree"

\* mutant of CompSet: nothing is excluded
CompSet_All(allfiles, excluded) == allfiles

\* allfiles.difference(excluded)
CompSet(allfiles, excluded) == allfiles \ excluded

\* f"{tree.path}/{filename}"
PathOf(t, filename) == t.abspath \o <<SEP>> \o filename

RECURSIVE BinaryLoop(_, _, _, _, _, _)
\* for filename in comp_set: compare the two digests, with names the
\* iteration order, diff the list so far and hashed the paths opened so far
BinaryLoop(fsys, ta, tb, names, diff, hashed) ==
  IF names = <<>> THEN [raised |-> FALSE, diff |-> diff, hashed |-> hashed]
  ELSE LET pa == PathOf(ta, Head(names))
           pb == PathOf(tb, Head(names))
           ha == Hash(fsys, pa)
           hb == Hash(fsys, pb)
       IN  IF ha.raised THEN [raised |-> TRUE, diff |-> diff, hashed |-> hashed \cup {pa}]
           ELSE IF hb.raised
           THEN [raised |-> TRUE, diff |-> diff, hashed |-> hashed \cup {pa, pb}]
           ELSE BinaryLoop(fsys, ta, tb, Tail(names),
                           IF ha.digest # hb.digest THEN Append(diff, Head(names)) ELSE diff,
                           hashed \cup {pa, pb})

\* compare_binary(tree_a, tree_b): every outcome it may have: the result
\* class, whether it warned or raised, and the paths it opened
CompareBinary(h, fsys, ta, tb) ==
  LET r0 == Namedtuple(<<"result", "diff">>)
  IN  IF ~BothFiletrees(ta, tb)
      THEN {[raised |-> FALSE, warned |-> TRUE, hashed |-> {},
             result |-> SetAttr(SetAttr(r0, "result", PyBool(TRUE)), "diff", PyNone)]}
      ELSE LET allfiles == SetOf(Elements(h, ta)) \cup SetOf(Elements(h, tb))
               looped(set_result, names) ==
                 LET excluded == SetOf(set_result.missing_a.items)
                                   \cup SetOf(set_result.missing_b.items)
                     l == BinaryLoop(fsys, ta, tb, names, <<>>, {})
                 IN  [raised |-> l.raised, warned |-> FALSE, hashed |-> l.hashed,
                      result |-> IF l.raised THEN r0
                                 ELSE SetAttr(SetAttr(r0, "diff", PyList(l.diff)),
                                              "result", PyBool(Len(l.diff) = 0))]
           IN  UNION {{looped(sr, names) :
                         names \in ListsOf(CompSet(allfiles,
                                     SetOf(sr.missing_a.items) \cup SetOf(sr.missing_b.items)))} :
                        sr \in CompareSet(h, ta, tb)}

\* Filetree.__eq__: compare "set" and, only when that is true, compare "binary"
FiletreeEq(h, fsys, self, other) ==
  UNION {IF ~sr.result.bool
         THEN {[raised |-> FALSE, warned |-> FALSE, hashed |-> {}, value |-> FALSE]}
         ELSE {[raised |-> b.raised, warned |-> b.warned, hashed |-> b.hashed,
                value |-> IF b.raised THEN FALSE ELSE b.result.result.bool] :
                 b \in CompareBinary(h, fsys, self, other)} :
           sr \in CompareSet(h, self, other)}

\* Dirtree.__eq__: compare "set"
DirtreeEq(h, fsys, self, other) ==
  {[raised |-> FALSE, warned |-> FALSE, hashed |-> {}, value |-> sr.result.bool] :
     sr \in CompareSet(h, self, other)}

\* mutant of TreeEq: every tree compares as a Dirtree does
TreeEq_SetOnly(h, fsys, self, other) == DirtreeEq(h, fsys, self, other)

\* self == other
TreeEq(h, fsys, self, other) ==
  IF self.kind = "Filetree" THEN FiletreeEq(h, fsys, self, other)
  ELSE DirtreeEq(h, fsys, self, other)

\* Basetree.__ne__: not self.__eq__(other)
TreeNe(h, fsys, self, other) ==
  {[e EXCEPT !.value = IF e.raised THEN FALSE ELSE ~e.value] :
     e \in TreeEq(h, fsys, self, other)}

\* trees[i].compare(trees[j], method) for "size", "set", "binary", and the
\* operators == and !=
Compare(i, j, method) ==
  /\ i \in 1..Len(trees) /\ j \in 1..Len(trees)
  /\ LET call == [op |-> method, a |-> i, b |-> j] IN
       \/ /\ method = "size"
          /\ out' = call @@ [raised |-> FALSE, result |-> CompareSize(heap, trees[i], trees[j])]
       \/ /\ method = "set"
          /\ \E r \in CompareSet(heap, trees[i], trees[j]) :
               out' = call @@ [raised |-> FALSE, result |-> r]
       \/ /\ method = "binary"
          /\ \E o \in CompareBinary(heap, fs, trees[i], trees[j]) : out' = call @@ o
       \/ /\ method = "eq"
          /\ \E o \in TreeEq(heap, fs, trees[i], trees[j]) : out' = call @@ o
       \/ /\ method = "ne"
          /\ \E o \in TreeNe(heap, fs, trees[i], trees[j]) : out' = call @@ o
  /\ UNCHANGED <<fs, heap, trees>>

(***************************************************************************)
(* Specifications.                                                         *)
(***************************************************************************)
Init ==
  /\ fs \in InitFs
  /\ heap = <<>>
  /\ trees = <<>>
  /\ out = [op |-> "none"]

\* every operation of the module
Next ==
  \/ \E path \in StringsUpTo(PathAlphabet, MaxPathLen) : BasetreeInit(path)
  \/ \E args \in TreeArgs : Construct(args[1], args[2])
  \/ \E i \in 1..MaxTrees, e \in Expressions, inplace, regex, invert \in BOOLEAN :
       Filter(i, e, inplace, regex, invert)
  \/ \E i, j \in 1..MaxTrees, method \in {"size", "set", "binary", "eq", "ne"} :
       Compare(i, j, method)

Spec == Init /\ [][Next]_vars

\* the constructor of the base class alone, on every short path string
NextPath ==
  \E path \in StringsUpTo(PathAlphabet, MaxPathLen) : BasetreeInit(path)

SpecPath == Init /\ [][NextPath]_vars

\* one tree is built, then filtered in place and into copies
NextFilter ==
  \/ \E args \in TreeArgs : trees = <<>> /\ Construct(args[1], args[2])
  \/ \E i \in 1..MaxTrees, e \in Expressions, inplace, regex, invert \in BOOLEAN :
       Filter(i, e, inplace, regex, invert)

SpecFilter == Init /\ [][NextFilter]_vars

\* trees are built and compared
NextCompare ==
  \/ \E args \in TreeArgs : Construct(args[1], args[2])
  \/ \E i, j \in 1..MaxTrees, method \in {"size", "set", "binary", "eq", "ne"} :
       Compare(i, j, method)

SpecCompare == Init /\ [][NextCompare]_vars

(***************************************************************************)
(* Properties.  out describes the call that led to the current state, so   *)
(* a state predicate on out speaks of the state right after that call.     *)
(***************************************************************************)
\* the two trees of the last comparison
TreeA == trees[out.a]
TreeB == trees[out.b]
SetA == SetOf(Elements(heap, TreeA))
SetB == SetOf(Elements(heap, TreeB))

\* list is a Python list that holds exactly the members of S, once each
ListHolds(list, S) ==
  /\ list.type = "list"
  /\ SetOf(list.items) = S
  /\ Len(list.items) = Cardinality(S)

\* relative path f is a regular file below the root of tree t
ReadableUnder(t, f) == Resolve(PathOf(t, f)) \in DOMAIN fs

\* what the regular file at relative path f below the root of tree t holds
ContentUnder(t, f) == fs[Resolve(PathOf(t, f))]

\* f is a regular file below both roots and holds the same bytes below both
SameContent(ta, tb, f) ==
  /\ ReadableUnder(ta, f) /\ ReadableUnder(tb, f)
  /\ ContentUnder(ta, f) = ContentUnder(tb, f)

\* C1: compare_set(A, B) has result = true exactly when set(A.elements) =
\* set(B.elements); missing_a holds exactly the elements of B that A lacks and
\* missing_b exactly the elements of A that B lacks; both are empty when the
\* result is true, and compare_set(A, A) is equal with both empty.
C1_CompareSet ==
  out.op = "set" =>
    /\ ~out.raised
    /\ out.result.result = PyBool(SetA = SetB)
    /\ ListHolds(out.result.missing_a, SetB \ SetA)
    /\ ListHolds(out.result.missing_b, SetA \ SetB)
    /\ out.result.result.bool =>
         out.result.missing_a.items = <<>> /\ out.result.missing_b.items = <<>>
    /\ out.a = out.b =>
         /\ out.result.result.bool
         /\ out.result.missing_a.items = <<>> /\ out.result.missing_b.items = <<>>

\* C1 witness: a set comparison of two trees that each lack an element of
\* the other has returned
C1_Witness ==
  /\ out.op = "set"
  /\ SetA \ SetB # {} /\ SetB \ SetA # {}
  /\ ~out.result.result.bool

\* C2: compare_binary on two Filetrees opens only paths present in both
\* trees; when it returns, it has opened every shared path under both roots,
\* diff holds exactly the shared paths whose content differs between the two
\* roots, and result = true exactly when diff is empty.
C2_CompareBinary ==
  (out.op = "binary" /\ TreeA.kind = "Filetree" /\ TreeB.kind = "Filetree") =>
    LET shared == SetA \cap SetB
        opened == UNION {{PathOf(TreeA, f), PathOf(TreeB, f)} : f \in shared}
    IN  /\ ~out.warned
        /\ out.hashed \subseteq opened
        /\ ~out.raised =>
             /\ out.hashed = opened
             /\ ListHolds(out.result.diff,
                          {f \in shared : ~SameContent(TreeA, TreeB, f)})
             /\ out.result.result = PyBool(out.result.diff.items = <<>>)

\* C2 witness: a binary comparison of two Filetrees has returned a diff that
\* is not empty, while each tree holds a path the other lacks and one shared
\* path has the same content under both roots
C2_Witness ==
  /\ out.op = "binary" /\ TreeA.kind = "Filetree" /\ TreeB.kind = "Filetree"
  /\ ~out.raised
  /\ out.result.diff.items # <<>>
  /\ \/ SetA \ SetB # {} /\ SetB \ SetA # {}
     \/ \E f \in SetA \cap SetB : f \notin SetOf(out.result.diff.items)

\* C6: compare_size(A, B) returns a record whose result is (A.size == B.size)
\* and whose fields size_a and size_b hold A.size and B.size.
C6_SizeFields ==
  out.op = "size" =>
    /\ out.result.result = PyBool(Size(heap, TreeA) = Size(heap, TreeB))
    /\ out.result.size_a = PyInt(Size(heap, TreeA))
    /\ out.result.size_b = PyInt(Size(heap, TreeB))

\* C8: compare_binary with at least one input that is no Filetree returns
\* result = true and diff = None, warns instead of raising, and opens no file.
C8_BinaryNoOp ==
  (out.op = "binary" /\ (TreeA.kind # "Filetree" \/ TreeB.kind # "Filetree")) =>
    /\ ~out.raised
    /\ out.warned
    /\ out.result.result = PyBool(TRUE)
    /\ out.result.diff = PyNone
    /\ out.hashed = {}

\* C8 witness: a binary comparison of a Filetree with a Dirtree, neither
\* empty, has returned
C8_Witness ==
  /\ out.op = "binary"
  /\ TreeA.kind = "Filetree" /\ TreeB.kind = "Dirtree"
  /\ SetA # {} /\ SetB # {}

\* A == B as the claim defines it: same membership and, between two
\* Filetrees, the same content for every shared file
SameTrees ==
  /\ SetA = SetB
  /\ (TreeA.kind = "Filetree" /\ TreeB.kind = "Filetree") =>
       \A f \in SetA \cap SetB : SameContent(TreeA, TreeB, f)

\* C9: two Filetrees are == exactly when their sets are equal and every
\* shared file has the same content, two Dirtrees exactly when their sets are
\* equal, and != is the negation of == for the same pair.
C9_Equality ==
  /\ (out.op = "eq" /\ ~out.raised) => (out.value <=> SameTrees)
  /\ (out.op = "ne" /\ ~out.raised) => (out.value <=> ~SameTrees)

\* C9 witness: == between two Filetrees of equal sets has returned false
\* because a shared file differs
C9_Witness ==
  /\ out.op = "eq" /\ ~out.raised
  /\ TreeA.kind = "Filetree" /\ TreeB.kind = "Filetree"
  /\ SetA = SetB /\ SetA # {}
  /\ ~out.value

\* what a caller sees of tree t: its elements and its applied_filters
TreeView(h, t) == [elements |-> Elements(h, t), applied_filters |-> AppliedFilters(h, t)]

\* C3: a filter call with inplace=False changes no tree that existed before
\* it, the receiver included, and a filter call with inplace=True changes no
\* tree but its receiver: the tree a filter call returned and the tree it was
\* called on never change through each other.
C3_FilterCopyIndependent ==
  [][out'.op = "filter" =>
       \A i \in 1..Len(trees) :
         \/ out'.inplace /\ ~out'.raised /\ i = out'.self
         \/ /\ i <= Len(trees')
            /\ TreeView(heap', trees'[i]) = TreeView(heap, trees[i])]_vars

\* C3 witness: filter with inplace=False has returned a new tree whose log
\* is the receiver's log and the new entry, and whose elements are not the
\* receiver's
C3_Witness ==
  /\ out.op = "filter" /\ ~out.inplace /\ ~out.raised
  /\ out.returned = Len(trees) /\ out.returned # out.self
  /\ AppliedFilters(heap, trees[out.returned])
       = Append(AppliedFilters(heap, trees[out.self]),
                Logged(Wrapped(out.expression, out.regex), out.invert))
  /\ Elements(heap, trees[out.returned]) # Elements(heap, trees[out.self])

\* C4: a filter call with regex=True and a pattern that does not compile
\* raises, whatever the tree holds (an empty tree included) and whatever
\* inplace and invert are; it never succeeds.
C4_InvalidRegexRaises ==
  (out.op = "filter" /\ out.regex /\ ~ReValid(out.expression)) => out.raised

\* C5: for a tree as constructed and an expression E, the elements of
\* filter(E, invert=False) and of filter(E, invert=True) have an empty
\* intersection, and their union, as sets, is the set of the tree's elements.
C5_InvertPartitions ==
  \A i, j \in 1..Len(trees) :
    ( /\ trees[i].kind = trees[j].kind /\ trees[i].abspath = trees[j].abspath
      /\ Len(AppliedFilters(heap, trees[i])) = 1
      /\ AppliedFilters(heap, trees[j])
           = <<Logged(AppliedFilters(heap, trees[i])[1], TRUE)>> ) =>
    LET kept == SetOf(Elements(heap, trees[i]))
        dropped == SetOf(Elements(heap, trees[j]))
    IN  /\ kept \cap dropped = {}
        /\ kept \cup dropped = SetOf(BuildElemlist(trees[i].kind, trees[i].abspath))

\* C5 witness: one tree filtered by an expression and the same tree filtered
\* by it with invert=True both exist, and neither is empty
C5_Witness ==
  \E i, j \in 1..Len(trees) :
    /\ trees[i].kind = trees[j].kind /\ trees[i].abspath = trees[j].abspath
    /\ Len(AppliedFilters(heap, trees[i])) = 1
    /\ AppliedFilters(heap, trees[j]) = <<Logged(AppliedFilters(heap, trees[i])[1], TRUE)>>
    /\ Elements(heap, trees[i]) # <<>> /\ Elements(heap, trees[j]) # <<>>

\* the root path of a tree ends with the separator
RootEndsWithSep(t) == EndsWith(t.abspath, <<SEP>>)

\* C7: the absolute root path of a Tree never ends with the separator (the
\* file system root itself apart), and the path argument "/" resolves to the
\* file system root, not to a path below the working directory.
C7_RootPathNormal ==
  \A i \in 1..Len(trees) :
    /\ RootEndsWithSep(trees[i]) => trees[i].abspath = <<SEP>>
    /\ (out.op = "init" /\ out.path = <<SEP>> /\ i = Len(trees)) =>
         Resolve(trees[i].abspath) = <<>>

RECURSIVE IsSubsequence(_, _)
\* s is t with some elements left out
IsSubsequence(s, t) ==
  IF s = <<>> THEN TRUE
  ELSE IF t = <<>> THEN FALSE
  ELSE IF Head(s) = Head(t) THEN IsSubsequence(Tail(s), Tail(t))
  ELSE IsSubsequence(s, Tail(t))

\* list is strictly ascending, so without duplicates
StrictlyAscending(list) ==
  \A k \in 1..(Len(list) - 1) : StrLess(list[k], list[k + 1])

\* C10: in every reachable state the elements of every tree are strictly
\* ascending without duplicates, are a subsequence of the elements produced
\* at construction, and size is their number.
C10_ElementsSorted ==
  \A i \in 1..Len(trees) :
    /\ StrictlyAscending(Elements(heap, trees[i]))
    /\ IsSubsequence(Elements(heap, trees[i]),
                     BuildElemlist(trees[i].kind, trees[i].abspath))
    /\ Size(heap, trees[i]) = Len(Elements(heap, trees[i]))

============================================================================
